---- MODULE Spec2Model ----
(***************************************************************************)
(* Model of the media assembly pipeline of douyin-publisher                *)
(* (src/feed_share.py): the three subtitle producers                       *)
(* (gen_subtitles_whisper, vtt_to_srt, gen_subtitles), the video composer  *)
(* (gen_video) and the coordinator (main); of the cover layout            *)
(* (src/gen_cover.py: wrap_text, gen_cover); and of the interactive front  *)
(* end (src/share_feed.py: main).                                          *)
(*                                                                         *)
(* Three specifications: Spec is one invocation of feed_share.main, or one *)
(* call of gen_subtitles, gen_cover or wrap_text; SpecShare is             *)
(* share_feed.main with feed_share.main as its child process; SpecRuns is  *)
(* two invocations side by side, sharing DATA_DIR and the temporary        *)
(* directory.                                                              *)
(*                                                                         *)
(* Times.  The code computes with float seconds.  The model computes with  *)
(* exact integers in "ticks": one millisecond is TicksPerMs ticks, and     *)
(* TicksPerMs is a multiple of every divisor the code divides a duration   *)
(* by (a number of sentences or of text parts, at most MaxLen), so that    *)
(* duration / n is exact for inputs given in whole milliseconds.           *)
(*                                                                         *)
(* Texts are sequences of one-character strings.                           *)
(***************************************************************************)
EXTENDS Integers, Sequences, FiniteSets, TLC

(***************************************************************************)
(* Bounds of the model                                                     *)
(***************************************************************************)
\* longest text handed to gen_subtitles, and longest foreign cue text
MaxLen == 5
\* most words returned by the transcription collaborator
MaxWords == 3
\* most cues in the foreign caption (VTT) file
MaxCues == 2

(***************************************************************************)
(* Arithmetic helpers                                                      *)
(***************************************************************************)
RECURSIVE GCD(_, _)
GCD(a, b) == IF b = 0 THEN a ELSE GCD(b, a % b)

RECURSIVE LCMUpTo(_)
LCMUpTo(n) == IF n <= 1 THEN 1 ELSE LET l == LCMUpTo(n - 1) IN (l * n) \div GCD(l, n)

TicksPerMs == LCMUpTo(MaxLen)

TicksPerSec == 1000 * TicksPerMs

\* a time given in whole milliseconds, as the float seconds value the code holds
Ms(n) == n * TicksPerMs

(***************************************************************************)
(* Python string helpers                                                   *)
(***************************************************************************)
Whitespace == {" ", "\n"}

\* str.strip()
RECURSIVE lstrip(_)
lstrip(t) == IF t # <<>> /\ Head(t) \in Whitespace THEN lstrip(Tail(t)) ELSE t

RECURSIVE rstrip(_)
rstrip(t) ==
    IF t # <<>> /\ t[Len(t)] \in Whitespace THEN rstrip(SubSeq(t, 1, Len(t) - 1)) ELSE t

strip(t) == rstrip(lstrip(t))

\* decimal digits of a natural number, most significant first
RECURSIVE Digits(_)
Digits(n) ==
    LET d == <<"0", "1", "2", "3", "4", "5", "6", "7", "8", "9">>
    IN  IF n < 10 THEN <<d[n + 1]>> ELSE Digits(n \div 10) \o <<d[(n % 10) + 1]>>

RECURSIVE ZeroFill(_, _)
ZeroFill(ds, w) == IF Len(ds) >= w THEN ds ELSE ZeroFill(<<"0">> \o ds, w)

\* f"{n:0wd}": zero padding to at least w characters, the sign counted in w
Pad(n, w) ==
    IF n >= 0 THEN ZeroFill(Digits(n), w)
    ELSE <<"-">> \o ZeroFill(Digits(-n), w - 1)

(***************************************************************************)
(* format_time: three textual copies in the source                         *)
(***************************************************************************)
\* the fields h, m, s, ms computed by format_time from float seconds
\* (// and % are floor division and non-negative remainder, int() of a
\* non-negative value is floor)
TimeFields(seconds) ==
    [h  |-> seconds \div (3600 * TicksPerSec),
     m  |-> (seconds % (3600 * TicksPerSec)) \div (60 * TicksPerSec),
     s  |-> (seconds % (60 * TicksPerSec)) \div TicksPerSec,
     ms |-> ((seconds % TicksPerSec) * 1000) \div TicksPerSec]

Render(f) ==
    Pad(f.h, 2) \o <<":">> \o Pad(f.m, 2) \o <<":">> \o Pad(f.s, 2) \o <<",">> \o Pad(f.ms, 3)

\* gen_subtitles_whisper.format_time
format_time_whisper(seconds) == Render(TimeFields(seconds))

\* vtt_to_srt.format_time
format_time_vtt(seconds) == Render(TimeFields(seconds))

\* gen_subtitles.format_time
format_time_fallback(seconds) == Render(TimeFields(seconds))

(***************************************************************************)
(* SRT blocks                                                              *)
(***************************************************************************)
\* One block f"{block_num}\n{format_time(start)} --> {format_time(end)}\n{text}".
\* start and end keep the values the code computed (in ticks) next to their
\* rendering, so that properties of the computed times can be stated.
Block(block_num, start, end, start_str, end_str, text) ==
    [index |-> block_num, start |-> start, end |-> end,
     start_str |-> start_str, end_str |-> end_str, text |-> text]

(***************************************************************************)
(* gen_subtitles_whisper: grouping of transcribed words                    *)
(***************************************************************************)
None == -1

WhisperInit ==
    [srt_blocks |-> <<>>, block_num |-> 1, current_text |-> <<>>,
     current_start |-> None, current_end |-> None]

WhisperBlock(st) ==
    Block(st.block_num, st.current_start, st.current_end,
          format_time_whisper(st.current_start), format_time_whisper(st.current_end),
          st.current_text)

\* "block_num += 1" after a closed line
WhisperNextBlockNum(block_num) == block_num + 1

\* the test that closes the current line before the word is added
NeedsBreak(current_text, word_text, max_chars) ==
    Len(current_text) + Len(word_text) > max_chars /\ current_text # <<>>

\* one iteration of "for word in words"
WhisperStep(st, word, max_chars) ==
    IF word.text = <<>> THEN st
    ELSE LET s1 == IF st.current_start = None
                   THEN [st EXCEPT !.current_start = word.start] ELSE st
             s2 == IF NeedsBreak(s1.current_text, word.text, max_chars)
                   THEN [s1 EXCEPT !.srt_blocks = Append(@, WhisperBlock(s1)),
                                   !.block_num = WhisperNextBlockNum(@),
                                   !.current_text = word.text,
                                   !.current_start = word.start]
                   ELSE [s1 EXCEPT !.current_text = @ \o word.text]
         IN  [s2 EXCEPT !.current_end = word.end]

RECURSIVE WhisperLoop(_, _, _)
WhisperLoop(st, words, max_chars) ==
    IF words = <<>> THEN st
    ELSE WhisperLoop(WhisperStep(st, Head(words), max_chars), Tail(words), max_chars)

\* mutant: the line still open after the last word is not written
gen_subtitles_whisper_no_flush(words, max_chars) ==
    WhisperLoop(WhisperInit, words, max_chars).srt_blocks

\* the blocks written to the SRT file, for a non-empty list of words
\* (word texts already stripped when the words were collected)
gen_subtitles_whisper(words, max_chars) ==
    LET st == WhisperLoop(WhisperInit, words, max_chars)
    IN  IF st.current_text # <<>> THEN Append(st.srt_blocks, WhisperBlock(st))
        ELSE st.srt_blocks

\* collection of the words of the segments: w.word.strip()
CollectWords(raw_words) ==
    [i \in 1..Len(raw_words) |->
        [text |-> strip(raw_words[i].word), start |-> raw_words[i].start,
         end |-> raw_words[i].end]]

(***************************************************************************)
(* vtt_to_srt: conversion of the foreign caption format                    *)
(***************************************************************************)
\* the seven full-width marks of split_text, written here with their ASCII
\* counterparts; "~" stands for the ideographic comma)
SplitPunct == {",", ".", "!", "?", "~", ";", ":"}

\* the first loop of split_text: cut after a punctuation mark once the
\* accumulated segment has at least max_chars // 2 characters
RECURSIVE PunctSegments(_, _, _, _)
PunctSegments(text, current, segments, max_chars) ==
    IF text = <<>>
    THEN IF current # <<>> THEN Append(segments, current) ELSE segments
    ELSE LET cur == Append(current, Head(text))
         IN  IF Head(text) \in SplitPunct /\ Len(cur) >= max_chars \div 2
             THEN PunctSegments(Tail(text), <<>>, Append(segments, cur), max_chars)
             ELSE PunctSegments(Tail(text), cur, segments, max_chars)

\* mutant: the forced split at the character limit left out
ForceSplit_none(seg, max_chars) == IF seg # <<>> THEN <<seg>> ELSE <<>>

\* the while loop of split_text on one segment
RECURSIVE ForceSplit(_, _)
ForceSplit(seg, max_chars) ==
    IF Len(seg) > max_chars
    THEN <<SubSeq(seg, 1, max_chars)>> \o ForceSplit(SubSeq(seg, max_chars + 1, Len(seg)), max_chars)
    ELSE IF seg # <<>> THEN <<seg>> ELSE <<>>

RECURSIVE ForceSplitAll(_, _)
ForceSplitAll(segments, max_chars) ==
    IF segments = <<>> THEN <<>>
    ELSE ForceSplit(Head(segments), max_chars) \o ForceSplitAll(Tail(segments), max_chars)

split_text(text, max_chars) ==
    IF Len(text) <= max_chars THEN <<text>>
    ELSE LET result == ForceSplitAll(PunctSegments(text, <<>>, <<>>, max_chars), max_chars)
         IN  IF result # <<>> THEN result ELSE <<text>>

\* parse_time of "HH:MM:SS.mmm", given as its fields
parse_time(f) == (f.h * 3600 + f.m * 60 + f.s) * TicksPerSec + Ms(f.ms)

\* ' '.join(text_lines)
RECURSIVE JoinLines(_)
JoinLines(ls) ==
    IF ls = <<>> THEN <<>>
    ELSE IF Len(ls) = 1 THEN ls[1] ELSE ls[1] \o <<" ">> \o JoinLines(Tail(ls))

\* the text lines kept for one cue: stripped, empty ones dropped
RECURSIVE TextLines(_)
TextLines(ls) ==
    IF ls = <<>> THEN <<>>
    ELSE (IF strip(Head(ls)) # <<>> THEN <<strip(Head(ls))>> ELSE <<>>) \o TextLines(Tail(ls))

\* the parsing loop: one raw subtitle per timing line that has text
RECURSIVE ParseVtt(_)
ParseVtt(cues) ==
    IF cues = <<>> THEN <<>>
    ELSE LET c == Head(cues)
             text_lines == TextLines(c.lines)
         IN  (IF text_lines # <<>>
              THEN <<[start |-> parse_time(c.start), end |-> parse_time(c.end),
                      text |-> JoinLines(text_lines)]>>
              ELSE <<>>) \o ParseVtt(Tail(cues))

\* the trailing gap subtracted from the end of every part (0.05 s)
VttGap == Ms(50)

VttPartStart(sub, j, time_per_part) == sub.start + j * time_per_part

\* mutant: the gap added instead of subtracted
VttPartEnd_plus_gap(sub, j, time_per_part) == sub.start + (j + 1) * time_per_part + VttGap

\* mutant: the gap forgotten
VttPartEnd_no_gap(sub, j, time_per_part) == sub.start + (j + 1) * time_per_part

VttPartEnd(sub, j, time_per_part) == sub.start + (j + 1) * time_per_part - VttGap

\* mutant: the block counter not advanced
VttNextBlockNum_stuck(block_num) == block_num

\* "block_num += 1" after every part
VttNextBlockNum(block_num) == block_num + 1

\* "for j, part in enumerate(text_parts)", from index j (0-based) on
RECURSIVE VttParts(_, _, _, _, _)
VttParts(sub, text_parts, time_per_part, j, block_num) ==
    IF j >= Len(text_parts) THEN <<>>
    ELSE LET start == VttPartStart(sub, j, time_per_part)
             end   == VttPartEnd(sub, j, time_per_part)
         IN  <<Block(block_num, start, end, format_time_vtt(start), format_time_vtt(end),
                     text_parts[j + 1])>>
             \o VttParts(sub, text_parts, time_per_part, j + 1, VttNextBlockNum(block_num))

\* "for sub in raw_subtitles"
RECURSIVE VttBlocks(_, _, _)
VttBlocks(raw_subtitles, max_chars, block_num) ==
    IF raw_subtitles = <<>> THEN <<>>
    ELSE LET sub == Head(raw_subtitles)
             text_parts == split_text(sub.text, max_chars)
             duration == sub.end - sub.start
             time_per_part == duration \div Len(text_parts)
             blocks == VttParts(sub, text_parts, time_per_part, 0, block_num)
         IN  blocks \o VttBlocks(Tail(raw_subtitles), max_chars,
                                  VttNextBlockNum(blocks[Len(blocks)].index))

\* the blocks written to the SRT file
vtt_to_srt(vtt, max_chars_per_line) == VttBlocks(ParseVtt(vtt), max_chars_per_line, 1)

(***************************************************************************)
(* gen_subtitles: duration-proportional fallback                           *)
(***************************************************************************)
\* the class of full-width sentence marks and the line break, in ASCII
SentenceDelims == {".", "!", "?", "\n"}

\* re.split of the text at every run of sentence delimiters
RECURSIVE re_split(_, _, _)
re_split(text, current, in_delim) ==
    IF text = <<>> THEN <<current>>
    ELSE IF Head(text) \in SentenceDelims
         THEN IF in_delim THEN re_split(Tail(text), current, TRUE)
              ELSE <<current>> \o re_split(Tail(text), <<>>, TRUE)
         ELSE re_split(Tail(text), Append(current, Head(text)), FALSE)

\* [s.strip() for s in sentences if s.strip()]
RECURSIVE StripNonEmpty(_)
StripNonEmpty(ss) ==
    IF ss = <<>> THEN <<>>
    ELSE (IF strip(Head(ss)) # <<>> THEN <<strip(Head(ss))>> ELSE <<>>) \o StripNonEmpty(Tail(ss))

Sentences(text) ==
    LET sentences == StripNonEmpty(re_split(text, <<>>, FALSE))
    IN  IF sentences = <<>> THEN <<text>> ELSE sentences

\* the gap subtracted from the end of every sentence (0.1 s)
SentenceGap == Ms(100)

\* mutant: the start taken one share late
SentenceStart_late(i, time_per_sentence) == (i + 1) * time_per_sentence

SentenceStart(i, time_per_sentence) == i * time_per_sentence

SentenceEnd(i, time_per_sentence) == (i + 1) * time_per_sentence - SentenceGap

\* the blocks written to the SRT file ("for i, sentence in enumerate(sentences)")
gen_subtitles(text, duration) ==
    LET sentences == Sentences(text)
        time_per_sentence == duration \div Len(sentences)
    IN  [k \in 1..Len(sentences) |->
            LET start_time == SentenceStart(k - 1, time_per_sentence)
                end_time   == SentenceEnd(k - 1, time_per_sentence)
            IN  Block(k, start_time, end_time, format_time_fallback(start_time),
                      format_time_fallback(end_time), sentences[k])]

(***************************************************************************)
(* gen_video and main: the decisions of the composer and the coordinator   *)
(***************************************************************************)
\* "if subtitles and subtitles.exists()": the subtitle filter is added
UsesSubtitleFilter(srt_file_exists) == srt_file_exists

\* the value gen_video returns; "raise" is the uncaught ValueError of
\* float(probe.stdout.strip()) when the probe prints no number
gen_video(probe, encoder_ok) ==
    IF probe = "nonzero" THEN "False"
    ELSE IF probe = "nan" THEN "raise"
    ELSE IF encoder_ok THEN "True" ELSE "False"

\* result.returncode of the encoder, "none" when gen_video left before it
encoder_exit(probe, encoder_ok) ==
    IF probe # "ok" THEN "none" ELSE IF encoder_ok THEN "zero" ELSE "nonzero"

\* "shutil.copy(subtitles, temp_srt)": the one temporary path of every run,
\* which no line of gen_video removes afterwards
copy_to_temp(blocks) == [exists |-> TRUE, content |-> blocks]

\* main after gen_cover returned or raised
main_after_cover(ok) ==
    IF ok THEN [pc |-> "cover", exit |-> "running"] ELSE [pc |-> "halt", exit |-> "crash"]

\* mutant: the run goes on after a failed synthesis
main_after_audio_goes_on(ok) == [pc |-> "audio", exit |-> "running"]

\* "if not gen_audio(...): sys.exit(1)"
main_after_audio(ok) ==
    IF ok THEN [pc |-> "audio", exit |-> "running"] ELSE [pc |-> "halt", exit |-> "exit1"]

\* "if not gen_subtitles_whisper(...)": the fallback branch is entered
main_after_whisper(result) == IF result THEN "subs" ELSE "fallback"

\* after the fallback branch: "if vtt.exists(): vtt_to_srt(...)", then on to gen_video
main_after_fallback(vtt_file_exists) == [pc |-> "subs", exit |-> "running"]

\* "if not gen_video(...): sys.exit(1)", then "if args.post"
main_after_video(result, post_flag) ==
    IF result = "raise" THEN [pc |-> "halt", exit |-> "crash"]
    ELSE IF result = "False" THEN [pc |-> "halt", exit |-> "exit1"]
    ELSE IF post_flag THEN [pc |-> "video", exit |-> "running"]
    ELSE [pc |-> "halt", exit |-> "exit0"]

\* "sys.exit(0 if success else 1)"
main_after_post(success) == IF success THEN "exit0" ELSE "exit1"

(***************************************************************************)
(* gen_cover.py: wrap_text and the layout of gen_cover                     *)
(***************************************************************************)
width == 1080

height == 1920

margin == 80

max_text_width == width - margin * 2

max_content_height == height - margin * 2

\* the sizes before the first attempt
title_size_start == 90

body_size_start == 60

spacing_start == 40

title_body_gap_start == 60

\* "while title_size >= 40"
title_size_floor == 40

\* the pixel size of ImageFont.load_default(), whatever size is asked for
default_font_px == 10

\* ImageFont.truetype(font_path, size) if a font file was found, else the
\* default font
Font(font_path, size) == [px |-> IF font_path THEN size ELSE default_font_px]

\* glyph metrics: a full-width glyph is as wide as the font size, a narrow
\* one half of it
NarrowChars == {"i", " "}

GlyphWidth(char, font) == IF char \in NarrowChars THEN font.px \div 2 ELSE font.px

\* bbox[2] - bbox[0] of draw.textbbox((0, 0), line, font=font)
RECURSIVE textbbox_width(_, _)
textbbox_width(line, font) ==
    IF line = <<>> THEN 0
    ELSE GlyphWidth(Head(line), font) + textbbox_width(Tail(line), font)

\* bbox[3] - bbox[1]
textbbox_height(line, font) == IF line = <<>> THEN 0 ELSE font.px

\* "for char in words" of wrap_text, with the final "if current_line"
RECURSIVE WrapLoop(_, _, _, _)
WrapLoop(words, current_line, font, max_width) ==
    IF words = <<>> THEN (IF current_line # <<>> THEN <<current_line>> ELSE <<>>)
    ELSE LET char == Head(words)
             test_line == Append(current_line, char)
         IN  IF textbbox_width(test_line, font) <= max_width
             THEN WrapLoop(Tail(words), test_line, font, max_width)
             ELSE (IF current_line # <<>> THEN <<current_line>> ELSE <<>>)
                  \o WrapLoop(Tail(words), <<char>>, font, max_width)

wrap_text(text, font, max_width) == WrapLoop(text, <<>>, font, max_width)

\* text.replace("\\n", "\n"): a backslash followed by n becomes a line break
\* (two occurrences cannot overlap; the n of each is dropped)
replace_escaped(text) ==
    LET starts == {i \in 1..(Len(text) - 1) : text[i] = "\\" /\ text[i + 1] = "n"}
        marked == [i \in 1..Len(text) |->
                      IF i \in starts THEN "\n"
                      ELSE IF i - 1 \in starts THEN "dropped"
                      ELSE text[i]]
    IN  SelectSeq(marked, LAMBDA c : c # "dropped")

\* text.split("\n"): the pieces between the line breaks, one more than breaks
SplitLines(text) ==
    LET breaks == {i \in 1..Len(text) : text[i] = "\n"}
        \* the position of the k-th break, 0 before the first piece and
        \* Len(text) + 1 after the last
        at(k) == IF k = 0 THEN 0
                 ELSE IF k > Cardinality(breaks) THEN Len(text) + 1
                 ELSE CHOOSE p \in breaks : Cardinality({q \in breaks : q < p}) = k - 1
    IN  [k \in 1..(Cardinality(breaks) + 1) |-> SubSeq(text, at(k - 1) + 1, at(k) - 1)]

\* wrapped_body: the wrapped lines of every body line, in order
RECURSIVE WrapAll(_, _, _)
WrapAll(lines, font, max_width) ==
    IF lines = <<>> THEN <<>>
    ELSE wrap_text(Head(lines), font, max_width) \o WrapAll(Tail(lines), font, max_width)

\* "for line in ...: total_h += bbox[3] - bbox[1] + spacing"
RECURSIVE LinesHeight(_, _, _)
LinesHeight(lines, font, spacing) ==
    IF lines = <<>> THEN 0
    ELSE textbbox_height(Head(lines), font) + spacing
         + LinesHeight(Tail(lines), font, spacing)

\* total_h of one attempt, and the distance the drawing moves y by
total_height(wrapped_title, wrapped_body, title_font, body_font, spacing, title_body_gap) ==
    LinesHeight(wrapped_title, title_font, spacing)
    + (IF wrapped_title # <<>> /\ wrapped_body # <<>> THEN title_body_gap - spacing ELSE 0)
    + LinesHeight(wrapped_body, body_font, spacing)
    - spacing

\* mutant: the title size is reduced by fifty
shrink_far(title_size) == title_size - 50

\* "title_size -= 10"
shrink(title_size) == title_size - 10

\* "int(title_size * 0.67)", for body_size and for title_body_gap
two_thirds(title_size) == (title_size * 67) \div 100

\* "int(title_size * 0.4)"
two_fifths(title_size) == (title_size * 4) \div 10

\* the first line of a text: text.split("\n")[0]
FirstLine(text) == SplitLines(text)[1]

\* the characters re.sub takes out of a directory name
SpecialChars == {"<", ">", ":", "/", "\\", "|", "?", "*"}

\* text[:max_len]
Truncate(chars, max_len) ==
    SubSeq(chars, 1, IF Len(chars) < max_len THEN Len(chars) ELSE max_len)

\* sanitize_dirname of gen_cover.py: first line, stripped, special characters
\* removed, at most 50 characters
gen_cover_sanitize_dirname(text) ==
    Truncate(SelectSeq(strip(FirstLine(text)), LAMBDA c : c \notin SpecialChars), 50)

\* sanitize_dirname of feed_share.py: first line, stripped, special characters
\* and white space replaced by "_", runs of "_" made one, at most 40
\* characters, "_" stripped from both ends
sanitize_dirname(text) ==
    LET first == strip(FirstLine(text))
        replaced == [i \in 1..Len(first) |->
                        IF first[i] \in SpecialChars \cup Whitespace THEN "_" ELSE first[i]]
        marked == [i \in 1..Len(replaced) |->
                      IF i > 1 /\ replaced[i] = "_" /\ replaced[i - 1] = "_"
                      THEN "dropped" ELSE replaced[i]]
        cut == Truncate(SelectSeq(marked, LAMBDA c : c # "dropped"), 40)
        kept == {i \in 1..Len(cut) : cut[i] # "_"}
    IN  IF kept = {} THEN <<>>
        ELSE SubSeq(cut, CHOOSE i \in kept : \A j \in kept : i <= j,
                         CHOOSE i \in kept : \A j \in kept : j <= i)

\* datetime.now().strftime("%Y%m%d_%H%M%S"): the clock cut to whole seconds
strftime(now) == now \div 1000

\* post_dir = DATA_DIR / f"{timestamp}_{name}"
PostDir(now, name) == [timestamp |-> strftime(now), name |-> name]

\* no directory made yet
NoDir == [timestamp |-> 0, name |-> <<>>]

\* what a file holds: a text (or, for media, the text it was made from), or cues
TextFile(chars) == [text |-> chars, cues |-> <<>>]

CueFile(blocks) == [text |-> <<>>, cues |-> blocks]

\* a file is written under DATA_DIR (post_dir.mkdir(exist_ok=True) accepts a
\* directory that is already there): what was at that path is replaced, and
\* the writers whose file was replaced are remembered in "over"
write_file(files, post_dir, name, writer, content) ==
    LET old == {f \in files : f.dir = post_dir /\ f.file = name}
    IN  (files \ old)
        \cup {[dir |-> post_dir, file |-> name, writer |-> writer, content |-> content,
               over |-> UNION {{f.writer} \cup f.over : f \in old} \ {writer}]}

\* gen_cover before the first attempt
CoverIdle ==
    [pc |-> "idle", text |-> <<>>, output |-> "none", post_dir |-> NoDir,
     font_path |-> FALSE,
     title |-> <<>>, body_lines |-> <<>>,
     title_size |-> title_size_start, body_size |-> body_size_start,
     spacing |-> spacing_start, title_body_gap |-> title_body_gap_start,
     attempts |-> 0, fits |-> FALSE,
     title_font |-> Font(FALSE, 0), body_font |-> Font(FALSE, 0),
     wrapped_title |-> <<>>, wrapped_body |-> <<>>, total_h |-> 0,
     measured_spacing |-> 0, measured_gap |-> 0,
     drawn |-> [saved |-> FALSE]]

\* the body of the while loop up to the test of total_h
Attempt(c) ==
    LET title_font == Font(c.font_path, c.title_size)
        body_font == Font(c.font_path, c.body_size)
        wrapped_title == IF c.title # <<>>
                         THEN wrap_text(c.title, title_font, max_text_width) ELSE <<>>
        wrapped_body == WrapAll(c.body_lines, body_font, max_text_width)
        total_h == total_height(wrapped_title, wrapped_body, title_font, body_font,
                                c.spacing, c.title_body_gap)
    IN  [c EXCEPT !.title_font = title_font, !.body_font = body_font,
                  !.wrapped_title = wrapped_title, !.wrapped_body = wrapped_body,
                  !.total_h = total_h, !.attempts = @ + 1,
                  !.measured_spacing = c.spacing, !.measured_gap = c.title_body_gap,
                  !.fits = total_h <= max_content_height]

\* "Shrink fonts": the last four lines of the loop body
Shrink(c) ==
    LET title_size == shrink(c.title_size)
    IN  [c EXCEPT !.title_size = title_size,
                  !.body_size = two_thirds(title_size),
                  !.spacing = two_fifths(title_size),
                  !.title_body_gap = two_thirds(title_size)]

\* the drawing: where y starts and ends, and the values it is moved by
Draw(c) ==
    LET y == (height - c.total_h) \div 2
    IN  [saved |-> TRUE,
         title_font |-> c.title_font, body_font |-> c.body_font,
         wrapped_title |-> c.wrapped_title, wrapped_body |-> c.wrapped_body,
         spacing |-> c.spacing, title_body_gap |-> c.title_body_gap,
         y_start |-> y,
         y_end |-> y + total_height(c.wrapped_title, c.wrapped_body, c.title_font,
                                    c.body_font, c.spacing, c.title_body_gap)
                     + c.spacing]

\* a call of wrap_text that has not been made
NoWrap == [called |-> FALSE, text |-> <<>>, font |-> Font(FALSE, 0), max_width |-> 0,
           lines |-> <<>>]

(***************************************************************************)
(* Inputs                                                                  *)
(***************************************************************************)
\* max_chars / max_chars_per_line: 20 in the source, scaled down with the texts
MaxCharsSet == {2, 4}

\* words as the transcription returns them (not yet stripped)
RawWordTexts == {<<" ">>, <<"a">>, <<"b", "c">>, <<" ", "d", "e", "f">>}

\* pause before a word and length of a word, in milliseconds (a word of
\* no length is among what the transcription returns)
WordTimings == {<<0, 200>>, <<100, 200>>, <<100, 0>>}

WordChoices == {[word |-> w, gap |-> t[1], dur |-> t[2]] : w \in RawWordTexts, t \in WordTimings}

\* the words with their absolute times: ordered, not overlapping
RECURSIVE BuildWords(_, _)
BuildWords(choices, from) ==
    IF choices = <<>> THEN <<>>
    ELSE LET c == Head(choices)
             start == from + Ms(c.gap)
             end == start + Ms(c.dur)
         IN  <<[word |-> c.word, start |-> start, end |-> end]>> \o BuildWords(Tail(choices), end)

\* the text lines under one timing line of the caption file
AllCueLines ==
    {<<>>,
     <<<<"a">>>>,
     <<<<"a", "b", "c">>>>,
     <<<<"a">>, <<" ", "b", "c">>>>,
     <<<<"a", ",", "b", "c", "d">>>>,
     <<<<",", "a", "b", "c", "d">>>>,
     <<<<"a", "b", "c", ",", "d", "e">>>>}

CueLines == {ls \in AllCueLines : Len(JoinLines(TextLines(ls))) <= MaxLen}

\* pause before a cue and length of a cue, in milliseconds
CueTimings == {<<0, 100>>, <<0, 2000>>, <<3661500, 2000>>}

CueChoices == {[lines |-> ls, gap |-> t[1], dur |-> t[2]] : ls \in CueLines, t \in CueTimings}

\* a time in whole milliseconds as the fields of "HH:MM:SS.mmm"
ToFields(ms) ==
    [h |-> ms \div 3600000, m |-> (ms % 3600000) \div 60000,
     s |-> (ms % 60000) \div 1000, ms |-> ms % 1000]

\* the caption file: timing lines in order, cues not overlapping
RECURSIVE BuildVtt(_, _)
BuildVtt(choices, from) ==
    IF choices = <<>> THEN <<>>
    ELSE LET c == Head(choices)
             start == from + c.gap
             end == start + c.dur
         IN  <<[start |-> ToFields(start), end |-> ToFields(end), lines |-> c.lines]>>
             \o BuildVtt(Tail(choices), end)

SentChars == {"a", ".", " "}

Texts(n) == UNION {[1..k -> SentChars] : k \in 0..n}

\* audio durations in milliseconds (0: what get_audio_duration returns on failure)
Durations == {0, 200, 12400, 3661500}

(***************************************************************************)
(* State                                                                   *)
(***************************************************************************)
VARIABLES
    pc,          \* position of the run: start, cover, audio, fallback, subs, video, halt
    calls,       \* the calls made so far, in order, each with what it returned
    exit,        \* running, exit0, exit1, crash (uncaught exception)
    post,        \* args.post, from the moment main reads it
    max_chars,   \* the character limit of the run
    words,       \* the words collected by gen_subtitles_whisper
    vtt,         \* the caption file written by the TTS collaborator
    vtt_exists,  \* vtt.exists()
    text,        \* the text given to gen_subtitles
    duration,    \* the duration given to gen_subtitles
    srt,         \* the blocks of subtitles.srt
    srt_exists,  \* subtitles.exists()
    producer,    \* which producer wrote subtitles.srt
    video,       \* what gen_video did
    temp_srt,    \* tempfile.gettempdir()/temp_subtitles.srt
    sf,          \* share_feed.main: its position, its arguments, the command it builds
    cover,       \* gen_cover.gen_cover: its locals and the image it saves
    wrap,        \* a call of wrap_text on its own: arguments and returned lines
    runs,        \* two invocations of the pipeline running side by side
    dirs         \* the files under DATA_DIR, each with the run that wrote it last

vars == <<pc, calls, exit, post, max_chars, words, vtt, vtt_exists, text, duration,
          srt, srt_exists, producer, video, temp_srt, sf, cover, wrap, runs, dirs>>

\* what the steps of feed_share.main leave alone
aside == <<sf, cover, wrap, runs, dirs>>

Call(fn, result) == [fn |-> fn, result |-> result]

NoVideo ==
    [invoked |-> FALSE, filter |-> FALSE, encoder_runs |-> 0, result |-> "none",
     probe |-> "none", encoder_exit |-> "none", output_exists |-> FALSE]

\* no second invocation is modelled
NoRuns == <<>>

\* an invocation that has not started
RunIdle ==
    [pc |-> "idle", kind |-> "none", title |-> <<>>, post_dir |-> NoDir, cues |-> <<>>,
     filter |-> FALSE, copied |-> <<>>, encoded |-> FALSE, burned |-> <<>>]

\* the temporary subtitle file before any run has written it
NoTemp == [exists |-> FALSE, content |-> <<>>]

(***************************************************************************)
(* share_feed.main: what it builds for feed_share, and feed_share's reading *)
(* of its command line                                                     *)
(***************************************************************************)
\* share_feed is not the caller of this run
SfOff ==
    [pc |-> "off", dry_run |-> FALSE, hotspot |-> FALSE, tweets |-> 0,
     choice |-> "none", selected |-> {}, confirm |-> "none", cmd |-> <<>>]

\* mutant: "--post" is appended whatever --dry-run says
build_cmd_always_post(title, script, dry_run, hotspot) ==
    <<"python3", "feed_share.py", title, script, "--post">>
    \o (IF hotspot THEN <<"--hotspot", "topic">> ELSE <<>>)

\* cmd = ["python3", feed_share.py, title, script], "--post" unless --dry-run,
\* "--hotspot" and its value if given
build_cmd(title, script, dry_run, hotspot) ==
    <<"python3", "feed_share.py", title, script>>
    \o (IF ~dry_run THEN <<"--post">> ELSE <<>>)
    \o (IF hotspot THEN <<"--hotspot", "topic">> ELSE <<>>)

\* argparse of feed_share: args.post is set by the flag
args_post(argv) == \E i \in 1..Len(argv) : argv[i] = "--post"

\* "elif args.title and args.content": both positionals are non-empty
args_present(argv) == argv[3] # "" /\ argv[4] # ""

\* the values args.post can have: the one of the command share_feed built,
\* either one when feed_share is run from a shell
PostArgs == IF sf.pc = "launched" THEN {args_post(sf.cmd)} ELSE BOOLEAN

\* whether main gets past its usage check; a run from a shell can go either way
PastUsage == IF sf.pc = "launched" THEN {args_present(sf.cmd)} ELSE BOOLEAN

Init ==
    /\ pc = "start"
    /\ calls = <<>>
    /\ exit = "running"
    /\ post = FALSE
    /\ max_chars \in MaxCharsSet
    /\ words = <<>>
    /\ vtt = <<>>
    /\ vtt_exists = FALSE
    /\ text = <<>>
    /\ duration = 0
    /\ srt = <<>>
    /\ srt_exists = FALSE
    /\ producer = "none"
    /\ video = NoVideo
    /\ temp_srt = NoTemp
    /\ sf = SfOff
    /\ cover = CoverIdle
    /\ wrap = NoWrap
    /\ runs = NoRuns
    /\ dirs = {}

(***************************************************************************)
(* main, step by step                                                      *)
(***************************************************************************)
\* 0. "else: parser.print_help(); sys.exit(1)": title or content is missing
Usage ==
    /\ pc = "start"
    /\ FALSE \in PastUsage
    /\ pc' = "halt"
    /\ exit' = "exit1"
    /\ UNCHANGED <<calls, post, max_chars, words, vtt, vtt_exists, text, duration, srt,
                   srt_exists, producer, video>>
    /\ UNCHANGED <<temp_srt, aside>>

\* 1. cover = gen_cover(title, post_dir)
GenCover ==
    /\ pc = "start"
    /\ TRUE \in PastUsage
    /\ \E ok \in BOOLEAN :
          /\ pc' = main_after_cover(ok).pc
          /\ exit' = main_after_cover(ok).exit
          /\ calls' = Append(calls, Call("gen_cover", IF ok THEN "ok" ELSE "raise"))
    /\ UNCHANGED <<post, max_chars, words, vtt, vtt_exists, text, duration, srt,
                   srt_exists, producer, video>>
    /\ UNCHANGED <<temp_srt, aside>>

\* 2. gen_audio(content, audio, args.voice)
GenAudio ==
    /\ pc = "cover"
    /\ \E ok \in BOOLEAN :
          /\ pc' = main_after_audio(ok).pc
          /\ exit' = main_after_audio(ok).exit
          /\ calls' = Append(calls, Call("gen_audio", IF ok THEN "True" ELSE "False"))
    /\ UNCHANGED <<post, max_chars, words, vtt, vtt_exists, text, duration, srt,
                   srt_exists, producer, video>>
    /\ UNCHANGED <<temp_srt, aside>>

\* 3. gen_subtitles_whisper: faster_whisper cannot be imported
WhisperUnavailable ==
    /\ pc = "audio"
    /\ pc' = main_after_whisper(FALSE)
    /\ calls' = Append(calls, Call("gen_subtitles_whisper", "False"))
    /\ UNCHANGED <<exit, post, max_chars, words, vtt, vtt_exists, text, duration, srt,
                   srt_exists, producer, video>>
    /\ UNCHANGED <<temp_srt, aside>>

\* 3. gen_subtitles_whisper: the transcription returns its words
WhisperTranscribe ==
    /\ pc = "audio"
    /\ \E n \in 0..MaxWords : \E choices \in [1..n -> WordChoices] :
          LET collected == CollectWords(BuildWords(choices, 0))
          IN  /\ words' = collected
              /\ IF collected = <<>>
                 THEN /\ pc' = main_after_whisper(FALSE)
                      /\ calls' = Append(calls, Call("gen_subtitles_whisper", "False"))
                      /\ UNCHANGED <<srt, srt_exists, producer>>
                 ELSE /\ pc' = main_after_whisper(TRUE)
                      /\ calls' = Append(calls, Call("gen_subtitles_whisper", "True"))
                      /\ srt' = gen_subtitles_whisper(collected, max_chars)
                      /\ srt_exists' = TRUE
                      /\ producer' = "gen_subtitles_whisper"
    /\ UNCHANGED <<exit, post, max_chars, vtt, vtt_exists, text, duration, video>>
    /\ UNCHANGED <<temp_srt, aside>>

\* 3'. the fallback: edge-tts --write-subtitles writes no caption file
FallbackNoVtt ==
    /\ pc = "fallback"
    /\ pc' = main_after_fallback(FALSE).pc
    /\ exit' = main_after_fallback(FALSE).exit
    /\ calls' = Append(calls, Call("edge_tts_subtitles", "no file"))
    /\ UNCHANGED <<post, max_chars, words, vtt, vtt_exists, text, duration, srt,
                   srt_exists, producer, video>>
    /\ UNCHANGED <<temp_srt, aside>>

\* 3'. the fallback: the caption file exists and vtt_to_srt converts it
FallbackVtt ==
    /\ pc = "fallback"
    /\ \E n \in 0..MaxCues : \E choices \in [1..n -> CueChoices] :
          LET file == BuildVtt(choices, 0)
          IN  /\ vtt' = file
              /\ srt' = vtt_to_srt(file, max_chars)
    /\ vtt_exists' = TRUE
    /\ srt_exists' = TRUE
    /\ producer' = "vtt_to_srt"
    /\ pc' = main_after_fallback(TRUE).pc
    /\ exit' = main_after_fallback(TRUE).exit
    /\ calls' = calls \o <<Call("edge_tts_subtitles", "file"), Call("vtt_to_srt", "ok")>>
    /\ UNCHANGED <<post, max_chars, words, text, duration, video>>
    /\ UNCHANGED <<temp_srt, aside>>

\* 4. gen_video(cover, audio, video, subtitles)
GenVideo ==
    /\ pc = "subs"
    /\ \E probe \in {"ok", "nonzero", "nan"} : \E encoder_ok \in BOOLEAN :
       \E post_flag \in PostArgs :
          /\ probe # "ok" => encoder_ok = FALSE
          /\ post' = (gen_video(probe, encoder_ok) = "True" /\ post_flag)
          /\ LET result == gen_video(probe, encoder_ok)
             IN  /\ video' = [invoked |-> TRUE,
                              filter |-> probe = "ok" /\ UsesSubtitleFilter(srt_exists),
                              encoder_runs |-> IF probe = "ok" THEN 1 ELSE 0,
                              result |-> result,
                              probe |-> probe,
                              encoder_exit |-> encoder_exit(probe, encoder_ok),
                              output_exists |-> probe = "ok" /\ encoder_ok]
                 /\ temp_srt' = IF probe = "ok" /\ UsesSubtitleFilter(srt_exists)
                                THEN copy_to_temp(srt)
                                ELSE temp_srt
                 /\ pc' = main_after_video(result, post_flag).pc
                 /\ exit' = main_after_video(result, post_flag).exit
                 /\ calls' = Append(calls, Call("gen_video", result))
    /\ UNCHANGED <<max_chars, words, vtt, vtt_exists, text, duration, srt,
                   srt_exists, producer>>
    /\ UNCHANGED aside

\* 5. post_video(...), only with --post
PostVideo ==
    /\ pc = "video"
    /\ \E success \in BOOLEAN :
          /\ exit' = main_after_post(success)
          /\ calls' = Append(calls, Call("post_video", IF success THEN "True" ELSE "False"))
    /\ pc' = "halt"
    /\ UNCHANGED <<post, max_chars, words, vtt, vtt_exists, text, duration, srt,
                   srt_exists, producer, video>>
    /\ UNCHANGED <<temp_srt, aside>>

(***************************************************************************)
(* gen_subtitles called on its own (main does not call it)                 *)
(***************************************************************************)
GenSubtitles ==
    /\ pc = "start"
    /\ \E t \in Texts(MaxLen) : \E d \in Durations :
          /\ text' = t
          /\ duration' = Ms(d)
          /\ srt' = gen_subtitles(t, Ms(d))
    /\ srt_exists' = TRUE
    /\ producer' = "gen_subtitles"
    /\ pc' = "halt"
    /\ calls' = Append(calls, Call("gen_subtitles", "ok"))
    /\ UNCHANGED <<exit, post, max_chars, words, vtt, vtt_exists, video>>
    /\ UNCHANGED <<temp_srt, aside>>

(***************************************************************************)
(* gen_cover.py: gen_cover step by step, and wrap_text called on its own   *)
(***************************************************************************)
RepeatSeq(chars, n) == [i \in 1..(n * Len(chars)) |-> chars[((i - 1) % Len(chars)) + 1]]

CoverTitles == {<<>>, <<" ">>, <<"W", "i">>, RepeatSeq(<<"W">>, 12)}

\* numbers of body lines: from none to more than the canvas holds at the
\* smallest sizes
BodyCounts == {0, 1, 17, 20, 25, 45}

\* the texts given to gen_cover: a title and body lines of one character, and
\* one text with the line break written as backslash n
CoverTexts ==
    {t \o RepeatSeq(<<"\n", "W">>, n) : t \in CoverTitles, n \in BodyCounts}
    \cup {<<"W", "\\", "n", "i">>}

\* readings of the clock, in milliseconds
ClockReadings == {1000, 1400, 2000}

\* gen_cover up to the loop: the directory and post.json (without an output
\* path), the font file, the title and the body lines
CoverStart ==
    /\ pc = "start"
    /\ cover.pc = "idle"
    /\ \E raw \in CoverTexts : \E font_path \in BOOLEAN :
       \E output \in {"given", "none"} : \E now \in ClockReadings :
          LET t == replace_escaped(raw)
              raw_lines == SplitLines(t)
              post_dir == PostDir(now, gen_cover_sanitize_dirname(t))
          IN  /\ output = "given" => now = 1000
              /\ cover' = [CoverIdle EXCEPT
                              !.pc = "loop", !.text = t, !.output = output,
                              !.post_dir = IF output = "none" THEN post_dir ELSE NoDir,
                              !.font_path = font_path,
                              !.title = strip(raw_lines[1]),
                              !.body_lines = StripNonEmpty(Tail(raw_lines))]
              /\ dirs' = IF output = "none"
                         THEN write_file(dirs, post_dir, "post.json", 0, TextFile(t))
                         ELSE dirs
    /\ pc' = "gen_cover.py"
    /\ UNCHANGED <<calls, exit, post, max_chars, words, vtt, vtt_exists, text, duration,
                   srt, srt_exists, producer, video, temp_srt, sf, wrap, runs>>

\* one pass of "while title_size >= 40": measure, leave if it fits, else shrink
CoverAttempt ==
    /\ cover.pc = "loop"
    /\ cover.title_size >= title_size_floor
    /\ cover' = IF Attempt(cover).fits
                THEN [Attempt(cover) EXCEPT !.pc = "draw"]
                ELSE Shrink(Attempt(cover))
    /\ UNCHANGED <<pc, calls, exit, post, max_chars, words, vtt, vtt_exists, text,
                   duration, srt, srt_exists, producer, video, temp_srt, sf, wrap, runs,
                   dirs>>

\* the test of the while loop fails: the sizes are below the floor
CoverLoopEnd ==
    /\ cover.pc = "loop"
    /\ cover.title_size < title_size_floor
    /\ cover' = [cover EXCEPT !.pc = "draw"]
    /\ UNCHANGED <<pc, calls, exit, post, max_chars, words, vtt, vtt_exists, text,
                   duration, srt, srt_exists, producer, video, temp_srt, sf, wrap, runs,
                   dirs>>

\* the drawing and img.save(str(output))
CoverDraw ==
    /\ cover.pc = "draw"
    /\ cover' = [cover EXCEPT !.pc = "saved", !.drawn = Draw(cover)]
    /\ dirs' = IF cover.output = "none"
               THEN write_file(dirs, cover.post_dir, "cover.png", 0, TextFile(cover.text))
               ELSE dirs
    /\ UNCHANGED <<pc, calls, exit, post, max_chars, words, vtt, vtt_exists, text,
                   duration, srt, srt_exists, producer, video, temp_srt, sf, wrap, runs>>

WrapChars == {"W", "i"}

WrapTexts(n) == UNION {[1..k -> WrapChars] : k \in 0..n}

\* wrap_text called with a text, a font and a width of the caller's choice
WrapText ==
    /\ pc = "start"
    /\ ~wrap.called
    /\ \E t \in WrapTexts(MaxLen) : \E px \in {10, 30} : \E max_width \in {20, 45} :
          wrap' = [called |-> TRUE, text |-> t, font |-> Font(TRUE, px),
                   max_width |-> max_width,
                   lines |-> wrap_text(t, Font(TRUE, px), max_width)]
    /\ pc' = "wrap_text"
    /\ UNCHANGED <<calls, exit, post, max_chars, words, vtt, vtt_exists, text, duration,
                   srt, srt_exists, producer, video, temp_srt, sf, cover, runs, dirs>>

(***************************************************************************)
(* Two invocations side by side: feed_share.main, or gen_cover without an  *)
(* output path, each a process of its own under the same DATA_DIR and the  *)
(* same temporary directory                                                *)
(***************************************************************************)
Runs == {1, 2}

\* titles, two of which feed_share gives the same directory name
RunTitles == {<<"a", " ", "b">>, <<"a", "/", "b">>, <<"c">>}

\* the cues of a run: its text spoken as one word
RunCues(title) ==
    gen_subtitles_whisper(CollectWords(<<[word |-> title, start |-> 0, end |-> Ms(200)]>>),
                          max_chars)

\* the file at a path under DATA_DIR, as a set of at most one record
FileAt(post_dir, name) == {f \in dirs : f.dir = post_dir /\ f.file = name}

\* the directory is named and made (an existing one is accepted); gen_cover
\* also writes post.json
RunStart(r) ==
    /\ pc = "two_runs"
    /\ runs[r].pc = "idle"
    /\ \E kind \in {"feed_share", "gen_cover"} : \E title \in RunTitles :
       \E now \in ClockReadings :
          LET name == IF kind = "feed_share" THEN sanitize_dirname(title)
                      ELSE gen_cover_sanitize_dirname(title)
              post_dir == PostDir(now, name)
          IN  /\ runs' = [runs EXCEPT ![r] =
                             [RunIdle EXCEPT !.pc = "dir", !.kind = kind, !.title = title,
                                             !.post_dir = post_dir,
                                             !.cues = IF kind = "feed_share"
                                                      THEN RunCues(title) ELSE <<>>]]
              /\ dirs' = IF kind = "gen_cover"
                         THEN write_file(dirs, post_dir, "post.json", r, TextFile(title))
                         ELSE dirs
    /\ UNCHANGED <<pc, calls, exit, post, max_chars, words, vtt, vtt_exists, text,
                   duration, srt, srt_exists, producer, video, temp_srt, sf, cover, wrap>>

\* cover.png is saved; gen_cover returns after it
RunCover(r) ==
    /\ runs[r].pc = "dir"
    /\ dirs' = write_file(dirs, runs[r].post_dir, "cover.png", r,
                                TextFile(runs[r].title))
    /\ runs' = [runs EXCEPT ![r].pc = IF runs[r].kind = "gen_cover" THEN "done"
                                      ELSE "cover"]
    /\ UNCHANGED <<pc, calls, exit, post, max_chars, words, vtt, vtt_exists, text,
                   duration, srt, srt_exists, producer, video, temp_srt, sf, cover, wrap>>

\* gen_audio writes audio.mp3, or fails and main exits
RunAudio(r) ==
    /\ runs[r].pc = "cover"
    /\ \E ok \in BOOLEAN :
          /\ runs' = [runs EXCEPT ![r].pc = IF main_after_audio(ok).exit = "running"
                                            THEN "audio" ELSE "done"]
          /\ dirs' = IF ok
                     THEN write_file(dirs, runs[r].post_dir, "audio.mp3", r,
                                TextFile(runs[r].title))
                     ELSE dirs
    /\ UNCHANGED <<pc, calls, exit, post, max_chars, words, vtt, vtt_exists, text,
                   duration, srt, srt_exists, producer, video, temp_srt, sf, cover, wrap>>

\* the subtitle step writes subtitles.srt with the cues of the run, or
\* leaves no file
RunSubtitles(r) ==
    /\ runs[r].pc = "audio"
    /\ \E written \in BOOLEAN :
          dirs' = IF written
                  THEN write_file(dirs, runs[r].post_dir, "subtitles.srt", r,
                             CueFile(runs[r].cues))
                  ELSE dirs
    /\ runs' = [runs EXCEPT ![r].pc = "subs"]
    /\ UNCHANGED <<pc, calls, exit, post, max_chars, words, vtt, vtt_exists, text,
                   duration, srt, srt_exists, producer, video, temp_srt, sf, cover, wrap>>

\* gen_video up to the encoder: the probe, and the copy of
\* post_dir/subtitles.srt, if there is one, to the temporary path
RunCopy(r) ==
    /\ runs[r].pc = "subs"
    /\ \E probe \in {"ok", "nonzero"} :
          LET found == FileAt(runs[r].post_dir, "subtitles.srt")
              content == (CHOOSE f \in found : TRUE).content.cues
          IN  IF gen_video(probe, TRUE) = "False"
              THEN /\ runs' = [runs EXCEPT ![r].pc = "done"]
                   /\ UNCHANGED temp_srt
              ELSE IF UsesSubtitleFilter(found # {})
              THEN /\ runs' = [runs EXCEPT ![r].pc = "video", ![r].filter = TRUE,
                                           ![r].copied = content]
                   /\ temp_srt' = copy_to_temp(content)
              ELSE /\ runs' = [runs EXCEPT ![r].pc = "video"]
                   /\ UNCHANGED temp_srt
    /\ UNCHANGED <<pc, calls, exit, post, max_chars, words, vtt, vtt_exists, text,
                   duration, srt, srt_exists, producer, video, sf, cover, wrap, dirs>>

\* the encoder runs: with the filter it reads the temporary path as it is
\* now; video.mp4 is written when it succeeds
RunEncode(r) ==
    /\ runs[r].pc = "video"
    /\ \E encoder_ok \in BOOLEAN :
          /\ runs' = [runs EXCEPT ![r].pc = "done", ![r].encoded = TRUE,
                                  ![r].burned = IF runs[r].filter THEN temp_srt.content
                                                ELSE <<>>]
          /\ dirs' = IF encoder_ok
                     THEN write_file(dirs, runs[r].post_dir, "video.mp4", r,
                                TextFile(runs[r].title))
                     ELSE dirs
    /\ UNCHANGED <<pc, calls, exit, post, max_chars, words, vtt, vtt_exists, text,
                   duration, srt, srt_exists, producer, video, temp_srt, sf, cover, wrap>>

(***************************************************************************)
(* share_feed.main, step by step                                           *)
(***************************************************************************)
Lower(c) == IF c = "N" THEN "n" ELSE IF c = "Q" THEN "q" ELSE IF c = "A" THEN "a" ELSE c

lower(chars) == [i \in 1..Len(chars) |-> Lower(chars[i])]

\* what the user types at the selection prompt (one index at most)
Choices == {<<"q">>, <<"Q", " ">>, <<"a">>, <<"1">>, <<"0">>, <<"9">>, <<"x">>, <<>>}

\* what the user types at the confirmation prompt
Answers == {<<>>, <<"y">>, <<"n">>, <<" ", "N">>, <<"n", "o">>}

\* the numbers of tweets parse_tweets can return
TweetCounts == 0..2

\* int(x.strip()) - 1 for a choice of one token; None stands for the ValueError
choice_index(c) ==
    IF Len(c) = 1 /\ c[1] \in {"0", "1", "9"}
    THEN (IF c[1] = "0" THEN 0 ELSE IF c[1] = "1" THEN 1 ELSE 9) - 1
    ELSE None

\* select_tweets: the indices (from 1) of the tweets it returns
select_tweets(tweets, typed, eof) ==
    LET choice == lower(strip(typed))
    IN  IF eof THEN {}
        ELSE IF choice = <<"q">> THEN {}
        ELSE IF choice = <<"a">> THEN {i \in 1..tweets : i <= 5}
        ELSE {i \in 1..tweets : i - 1 = choice_index(choice)}

\* confirm = input(...).strip().lower(), 'n' on EOF or an interrupt
read_confirm(typed, eof) == IF eof THEN <<"n">> ELSE lower(strip(typed))

\* args = parser.parse_args(); with --text the selection is skipped
SfArgs ==
    /\ sf.pc = "args"
    /\ \E text_given \in BOOLEAN : \E dry_run \in BOOLEAN : \E hotspot \in BOOLEAN :
          sf' = [sf EXCEPT !.pc = IF text_given THEN "confirm_text" ELSE "fetch",
                           !.dry_run = dry_run, !.hotspot = hotspot]
    /\ UNCHANGED <<pc, calls, exit, post, max_chars, words, vtt, vtt_exists, text,
                   duration, srt, srt_exists, producer, video, temp_srt, cover, wrap,
                   runs, dirs>>

\* ocr_text = fetch_feed(); "if not ocr_text: sys.exit(1)"
SfFetch ==
    /\ sf.pc = "fetch"
    /\ \E ok \in BOOLEAN : sf' = [sf EXCEPT !.pc = IF ok THEN "parse" ELSE "exit1"]
    /\ UNCHANGED <<pc, calls, exit, post, max_chars, words, vtt, vtt_exists, text,
                   duration, srt, srt_exists, producer, video, temp_srt, cover, wrap,
                   runs, dirs>>

\* tweets = parse_tweets(ocr_text); "if not tweets: sys.exit(1)"
SfParse ==
    /\ sf.pc = "parse"
    /\ \E n \in TweetCounts :
          sf' = [sf EXCEPT !.pc = IF n = 0 THEN "exit1" ELSE "select", !.tweets = n]
    /\ UNCHANGED <<pc, calls, exit, post, max_chars, words, vtt, vtt_exists, text,
                   duration, srt, srt_exists, producer, video, temp_srt, cover, wrap,
                   runs, dirs>>

\* selected = select_tweets(tweets); "if not selected: sys.exit(0)"
SfSelect ==
    /\ sf.pc = "select"
    /\ \E typed \in Choices : \E eof \in BOOLEAN :
          LET selected == select_tweets(sf.tweets, typed, eof)
          IN  sf' = [sf EXCEPT !.pc = IF selected = {} THEN "exit0" ELSE "confirm",
                               !.choice = IF eof THEN "eof"
                                          ELSE IF lower(strip(typed)) = <<"q">> THEN "q"
                                          ELSE "other",
                               !.selected = selected]
    /\ UNCHANGED <<pc, calls, exit, post, max_chars, words, vtt, vtt_exists, text,
                   duration, srt, srt_exists, producer, video, temp_srt, cover, wrap,
                   runs, dirs>>

\* the confirmation, then cmd and subprocess.run(cmd): feed_share starts.
\* script is empty when sanitize_for_douyin leaves nothing of --text.
SfConfirm ==
    /\ sf.pc \in {"confirm", "confirm_text"}
    /\ \E typed \in Answers : \E eof \in BOOLEAN :
       \E script \in IF sf.pc = "confirm_text" THEN {"script", ""} ELSE {"script"} :
          LET confirm == read_confirm(typed, eof)
              answer == IF confirm = <<"n">> THEN "n" ELSE "yes"
          IN  IF confirm = <<"n">>
              THEN /\ sf' = [sf EXCEPT !.pc = "exit0", !.confirm = answer]
                   /\ pc' = pc
              ELSE /\ sf' = [SfOff EXCEPT !.pc = "launched", !.dry_run = sf.dry_run,
                                          !.hotspot = sf.hotspot, !.confirm = answer,
                                          !.cmd = build_cmd("title", script, sf.dry_run,
                                                            sf.hotspot)]
                   /\ pc' = "start"
    /\ UNCHANGED <<calls, exit, post, max_chars, words, vtt, vtt_exists, text,
                   duration, srt, srt_exists, producer, video, temp_srt, cover, wrap,
                   runs, dirs>>

Next ==
    \/ Usage
    \/ GenCover
    \/ GenAudio
    \/ WhisperUnavailable
    \/ WhisperTranscribe
    \/ FallbackNoVtt
    \/ FallbackVtt
    \/ GenVideo
    \/ PostVideo
    \/ GenSubtitles
    \/ CoverStart
    \/ CoverAttempt
    \/ CoverLoopEnd
    \/ CoverDraw
    \/ WrapText

Spec == Init /\ [][Next]_vars

\* share_feed.main is the entry point and feed_share.main is its child process
InitShare ==
    /\ pc = "unstarted"
    /\ calls = <<>>
    /\ exit = "running"
    /\ post = FALSE
    /\ max_chars \in MaxCharsSet
    /\ words = <<>>
    /\ vtt = <<>>
    /\ vtt_exists = FALSE
    /\ text = <<>>
    /\ duration = 0
    /\ srt = <<>>
    /\ srt_exists = FALSE
    /\ producer = "none"
    /\ video = NoVideo
    /\ temp_srt = NoTemp
    /\ sf = [SfOff EXCEPT !.pc = "args"]
    /\ cover = CoverIdle
    /\ wrap = NoWrap
    /\ runs = NoRuns
    /\ dirs = {}

NextShare ==
    \/ SfArgs
    \/ SfFetch
    \/ SfParse
    \/ SfSelect
    \/ SfConfirm
    \/ Usage
    \/ GenCover
    \/ GenAudio
    \/ WhisperUnavailable
    \/ WhisperTranscribe
    \/ FallbackNoVtt
    \/ FallbackVtt
    \/ GenVideo
    \/ PostVideo

SpecShare == InitShare /\ [][NextShare]_vars

\* two invocations, neither started yet
InitRuns ==
    /\ pc = "two_runs"
    /\ calls = <<>>
    /\ exit = "running"
    /\ post = FALSE
    /\ max_chars \in MaxCharsSet
    /\ words = <<>>
    /\ vtt = <<>>
    /\ vtt_exists = FALSE
    /\ text = <<>>
    /\ duration = 0
    /\ srt = <<>>
    /\ srt_exists = FALSE
    /\ producer = "none"
    /\ video = NoVideo
    /\ temp_srt = NoTemp
    /\ sf = SfOff
    /\ cover = CoverIdle
    /\ wrap = NoWrap
    /\ runs = [r \in Runs |-> RunIdle]
    /\ dirs = {}

NextRuns ==
    \/ \E r \in Runs : RunStart(r)
    \/ \E r \in Runs : RunCover(r)
    \/ \E r \in Runs : RunAudio(r)
    \/ \E r \in Runs : RunSubtitles(r)
    \/ \E r \in Runs : RunCopy(r)
    \/ \E r \in Runs : RunEncode(r)

SpecRuns == InitRuns /\ [][NextRuns]_vars

(***************************************************************************)
(* Properties                                                              *)
(***************************************************************************)
IsPrefix(a, b) == Len(a) <= Len(b) /\ a = SubSeq(b, 1, Len(a))

Fns == [i \in 1..Len(calls) |-> calls[i].fn]

InMain == calls # <<>> /\ calls[1].fn = "gen_cover"

\* the subtitle step has ended and left no cue
WhisperFailed ==
    \E i \in 1..Len(calls) : calls[i] = Call("gen_subtitles_whisper", "False")

FallbackEnded == \E i \in 1..Len(calls) : calls[i].fn = "edge_tts_subtitles"

NoCues == ~srt_exists \/ srt = <<>>

\* the orders in which main can make its calls
MainOrders ==
    {<<"gen_cover", "gen_audio", "gen_subtitles_whisper", "gen_video", "post_video">>,
     <<"gen_cover", "gen_audio", "gen_subtitles_whisper", "edge_tts_subtitles",
       "gen_video", "post_video">>,
     <<"gen_cover", "gen_audio", "gen_subtitles_whisper", "edge_tts_subtitles",
       "vtt_to_srt", "gen_video", "post_video">>}

\* C1: main runs its steps in the order cover, audio, subtitles, video
\* (, publish); a failed gen_audio or gen_video is the last call of the run
\* and the run exits with failure; a subtitle step that fails altogether
\* (gen_subtitles_whisper returns False, the fallback leaves no cue) does not
\* end the run: gen_video is the next call, and it is made or can be made.
C1_PipelineOrder ==
    InMain =>
        /\ \E o \in MainOrders : IsPrefix(Fns, o)
        /\ \A i \in 1..Len(calls) :
              /\ calls[i] = Call("gen_audio", "False") => i = Len(calls) /\ exit = "exit1"
              /\ calls[i] = Call("gen_video", "False") => i = Len(calls) /\ exit = "exit1"
        /\ WhisperFailed /\ FallbackEnded /\ NoCues =>
              \/ pc = "subs" /\ exit = "running" /\ ENABLED GenVideo
              \/ video.invoked
        /\ pc = "fallback" => exit = "running"

\* C1 witness: a run whose subtitle step failed altogether, whose video was
\* composed all the same and which went on to publish
C1_Witness ==
    /\ Fns = <<"gen_cover", "gen_audio", "gen_subtitles_whisper", "edge_tts_subtitles",
               "gen_video", "post_video">>
    /\ ~srt_exists
    /\ video.result = "True"

\* C2: when the subtitle step ends with no cues (no word-level result, and
\* either no caption file or a caption file without cues), gen_video runs
\* the encoder without the subtitle filter and, the encoder succeeding, the
\* run that does not publish reports success.
C2_NoCuesNoFilter ==
    WhisperFailed /\ NoCues /\ video.invoked /\ video.encoder_runs = 1 =>
        /\ ~video.filter
        /\ video.result = "True" /\ ~post => exit = "exit0"

\* C3: every cue written by any of the three producers has start < end.
C3_StartBeforeEnd ==
    srt_exists => \A i \in 1..Len(srt) : srt[i].start < srt[i].end

\* C4: the cues written by any of the three producers are ordered by start
\* and do not overlap: end[i] <= start[i+1].
C4_OrderedNoOverlap ==
    srt_exists =>
        \A i \in 1..(Len(srt) - 1) :
            /\ srt[i].start <= srt[i + 1].start
            /\ srt[i].end <= srt[i + 1].start

\* C4 witness: a conversion of two foreign cues, one of them re-split
C4_Witness ==
    /\ producer = "vtt_to_srt"
    /\ Len(ParseVtt(vtt)) = 2
    /\ Len(srt) >= 3

\* C5: every cue written by gen_subtitles_whisper has at most max_chars
\* characters of text.
C5_WhisperTextBounded ==
    producer = "gen_subtitles_whisper" => \A i \in 1..Len(srt) : Len(srt[i].text) <= max_chars

\* C6: every cue written by vtt_to_srt has a non-empty text of at most
\* max_chars_per_line characters, also the cues made from a foreign cue
\* whose text is longer than that.
C6_SplitTextBounded ==
    producer = "vtt_to_srt" =>
        \A i \in 1..Len(srt) : srt[i].text # <<>> /\ Len(srt[i].text) <= max_chars

\* C6 witness: a foreign cue longer than twice the limit, cut at a
\* punctuation mark and again at the character limit
C6_Witness ==
    /\ producer = "vtt_to_srt"
    /\ \E k \in 1..Len(ParseVtt(vtt)) :
          /\ Len(ParseVtt(vtt)[k].text) > 2 * max_chars
          /\ \E m \in 1..Len(ParseVtt(vtt)[k].text) : ParseVtt(vtt)[k].text[m] \in SplitPunct
    /\ \E i \in 1..Len(srt) : Len(srt[i].text) = max_chars

RECURSIVE SumDurations(_, _, _)
SumDurations(blocks, from, n) ==
    IF n = 0 THEN 0
    ELSE (blocks[from].end - blocks[from].start) + SumDurations(blocks, from + 1, n - 1)

\* number of output cues made from each foreign cue
PartCounts == [k \in 1..Len(ParseVtt(vtt)) |-> Len(split_text(ParseVtt(vtt)[k].text, max_chars))]

RECURSIVE SumCounts(_, _)
SumCounts(counts, k) == IF k = 0 THEN 0 ELSE counts[k] + SumCounts(counts, k - 1)

\* sum of the durations of the output cues made from foreign cue k
GroupDuration(k) == SumDurations(srt, SumCounts(PartCounts, k - 1) + 1, PartCounts[k])

\* C7 as stated: the durations of the n output cues of a re-split foreign
\* cue add up to the duration of the foreign cue.
C7_SumEqualsDuration ==
    producer = "vtt_to_srt" =>
        \A k \in 1..Len(ParseVtt(vtt)) :
            PartCounts[k] >= 2 =>
                GroupDuration(k) = ParseVtt(vtt)[k].end - ParseVtt(vtt)[k].start

\* C7 amended: the durations of the n output cues of a re-split foreign cue
\* add up to the duration of the foreign cue less n times the trailing gap
\* of 0.05 s.
C7_SumEqualsDurationLessGaps ==
    producer = "vtt_to_srt" =>
        \A k \in 1..Len(ParseVtt(vtt)) :
            PartCounts[k] >= 2 =>
                GroupDuration(k) =
                    ParseVtt(vtt)[k].end - ParseVtt(vtt)[k].start - PartCounts[k] * Ms(50)

\* C7 witness: a foreign cue of 2 s re-split into three output cues
C7_Witness ==
    /\ producer = "vtt_to_srt"
    /\ \E k \in 1..Len(ParseVtt(vtt)) :
          /\ PartCounts[k] = 3
          /\ ParseVtt(vtt)[k].end - ParseVtt(vtt)[k].start = Ms(2000)

\* the characters that make a sentence non-empty
IsContent(c) == c \notin SentenceDelims /\ c \notin Whitespace

\* number of non-empty sentences of the text: the stretches between
\* delimiters that hold a character other than white space
SentenceCount ==
    Cardinality({i \in 1..Len(text) :
        /\ IsContent(text[i])
        /\ \A j \in 1..(i - 1) :
              IsContent(text[j]) => \E m \in (j + 1)..(i - 1) : text[m] \in SentenceDelims})

\* C8: for a text of k >= 1 non-empty sentences and a duration D,
\* gen_subtitles writes exactly k cues, cue i starts at (i-1)*D/k and ends
\* D/k later less the gap of 0.1 s, and the last cue ends no later than D.
C8_ProportionalFallback ==
    producer = "gen_subtitles" /\ SentenceCount >= 1 =>
        LET k == SentenceCount
        IN  /\ Len(srt) = k
            /\ \A i \in 1..Len(srt) :
                  /\ srt[i].start * k = (i - 1) * duration
                  /\ (srt[i].end - srt[i].start + Ms(100)) * k = duration
            /\ srt[Len(srt)].end <= duration

\* C8 witness: three sentences over 12.4 s
C8_Witness ==
    /\ producer = "gen_subtitles"
    /\ SentenceCount = 3
    /\ duration = Ms(12400)
    /\ Len(srt) = 3

IsDigit(c) == c \in {"0", "1", "2", "3", "4", "5", "6", "7", "8", "9"}

DigitValue(c) == CHOOSE v \in 0..9 : <<"0", "1", "2", "3", "4", "5", "6", "7", "8", "9">>[v + 1] = c

RECURSIVE Number(_)
Number(ds) ==
    IF ds = <<>> THEN 0 ELSE Number(SubSeq(ds, 1, Len(ds) - 1)) * 10 + DigitValue(ds[Len(ds)])

\* str is HH:MM:SS,mmm with zero-padded fields and stands for the time
\* seconds cut to whole milliseconds
WellRendered(str, seconds) ==
    /\ Len(str) = 12
    /\ str[3] = ":" /\ str[6] = ":" /\ str[9] = ","
    /\ \A p \in {1, 2, 4, 5, 7, 8, 10, 11, 12} : IsDigit(str[p])
    /\ LET hh == Number(SubSeq(str, 1, 2))
           mm == Number(SubSeq(str, 4, 5))
           ss == Number(SubSeq(str, 7, 8))
           mmm == Number(SubSeq(str, 10, 12))
       IN  /\ mm < 60 /\ ss < 60 /\ mmm < 1000
           /\ hh * 3600000 + mm * 60000 + ss * 1000 + mmm = seconds \div TicksPerMs

SameRendering(seconds) ==
    /\ format_time_whisper(seconds) = format_time_vtt(seconds)
    /\ format_time_vtt(seconds) = format_time_fallback(seconds)

\* C9: every time a producer hands to format_time is rendered as
\* HH:MM:SS,mmm with zero-padded fields, MM < 60, SS < 60, mmm < 1000, the
\* fields adding up to the time in whole milliseconds, and the three copies
\* of format_time render it alike.
C9_FormatTime ==
    srt_exists =>
        \A i \in 1..Len(srt) :
            /\ WellRendered(srt[i].start_str, srt[i].start)
            /\ WellRendered(srt[i].end_str, srt[i].end)
            /\ SameRendering(srt[i].start)
            /\ SameRendering(srt[i].end)

\* C10: the cues written by any of the three producers are numbered 1..N in
\* the order they are written.
C10_IndicesContiguous ==
    srt_exists => \A i \in 1..Len(srt) : srt[i].index = i

\* C10 witness: two foreign cues, each re-split, numbered across the cues
C10_Witness ==
    /\ producer = "vtt_to_srt"
    /\ Len(PartCounts) = 2
    /\ PartCounts[1] >= 2
    /\ PartCounts[2] >= 2
    /\ srt[Len(srt)].index >= 4

\* C11: once gen_video has returned, with the encoder succeeded or failed, the
\* temporary subtitle file it created does not exist any more.
C11_TempFileRemoved == video.invoked => ~temp_srt.exists

\* C12: gen_video returns True only if the probe gave a number, the encoder ran
\* exactly once and exited with zero and the output file exists; when the probe
\* exits non-zero or prints no number, gen_video returns False and the encoder
\* is not run.
C12_SuccessOnlyIfAllSteps ==
    /\ video.result = "True" =>
           /\ video.probe = "ok"
           /\ video.encoder_runs = 1
           /\ video.encoder_exit = "zero"
           /\ video.output_exists
    /\ video.probe \in {"nonzero", "nan"} =>
           /\ video.result = "False"
           /\ video.encoder_runs = 0

Posted == \E i \in 1..Len(calls) : calls[i].fn = "post_video"

\* C17: post_video is called, or about to be called, only with --post on the
\* command line and after gen_video returned True; the command share_feed
\* builds carries --post only without --dry-run; and after a quit at the
\* selection or an 'n' at the confirmation feed_share is never started.
C17_PublishOnlyOnRequest ==
    /\ Posted \/ pc = "video" =>
           /\ post
           /\ args_post(sf.cmd)
           /\ ~sf.dry_run
           /\ \E i \in 1..Len(calls) :
                  /\ calls[i] = Call("gen_video", "True")
                  /\ \A j \in 1..Len(calls) : calls[j].fn = "post_video" => i < j
    /\ sf.pc = "launched" /\ args_post(sf.cmd) => ~sf.dry_run
    /\ sf.choice \in {"q", "eof"} \/ sf.confirm = "n" =>
           /\ sf.pc = "exit0"
           /\ sf.cmd = <<>>
           /\ pc = "unstarted"
           /\ calls = <<>>

\* C17 witness: share_feed ran without --dry-run, the user confirmed, the
\* video was generated and post_video was called.
C17_Witness ==
    /\ sf.pc = "launched" /\ ~sf.dry_run /\ sf.confirm = "yes"
    /\ video.result = "True"
    /\ Posted

NonEmptyWords == SelectSeq(words, LAMBDA w : w.text # <<>>)

RECURSIVE ConcatWords(_, _, _)
ConcatWords(ws, from, to) ==
    IF from > to THEN <<>> ELSE ws[from].text \o ConcatWords(ws, from + 1, to)

Least(S) == CHOOSE x \in S : \A y \in S : x <= y

Greatest(S) == CHOOSE x \in S : \A y \in S : y <= x

\* C19: the cues of gen_subtitles_whisper partition the non-empty words in
\* order: each non-empty word lies in exactly one cue, cue after cue, no cue
\* is empty, the text of a cue is the concatenation of its words, its start
\* the start of its first word and its end the end of its last word.
C19_CuesPartitionWords ==
    producer = "gen_subtitles_whisper" =>
        \E g \in [1..Len(NonEmptyWords) -> 1..Len(srt)] :
            /\ \A i, j \in 1..Len(NonEmptyWords) : i <= j => g[i] <= g[j]
            /\ \A k \in 1..Len(srt) :
                   LET group == {i \in 1..Len(NonEmptyWords) : g[i] = k}
                   IN  /\ group # {}
                       /\ srt[k].text = ConcatWords(NonEmptyWords, Least(group),
                                                    Greatest(group))
                       /\ srt[k].start = NonEmptyWords[Least(group)].start
                       /\ srt[k].end = NonEmptyWords[Greatest(group)].end

\* C19 witness: three words of which one is dropped as empty, in two cues, the
\* second cue being the line left open after the last word.
C19_Witness ==
    /\ producer = "gen_subtitles_whisper"
    /\ Len(words) = 3 /\ Len(NonEmptyWords) = 2
    /\ Len(srt) = 2

\* C14: every line wrap_text returns is at most max_width wide, also when one
\* character alone is wider than max_width.
C14_WrappedLinesFit ==
    wrap.called =>
        \A i \in 1..Len(wrap.lines) :
            textbbox_width(wrap.lines[i], wrap.font) <= wrap.max_width

\* the number of passes of the loop between the first size and the floor
MaxAttempts == (title_size_start - title_size_floor) \div 10 + 1

\* C15: the shrink loop of gen_cover makes a bounded number of passes (six)
\* whatever the text, and during and after the loop title_size, body_size,
\* spacing and title_body_gap are all strictly positive.
C15_ShrinkLoopBoundedPositive ==
    /\ cover.attempts <= MaxAttempts
    /\ cover.pc = "loop" => cover.attempts < MaxAttempts \/ ENABLED CoverLoopEnd
    /\ cover.title_size > 0
    /\ cover.body_size > 0
    /\ cover.spacing > 0
    /\ cover.title_body_gap > 0

\* C15 witness: a text that never fits: six passes were made, the loop was
\* left by its test, and the image was saved.
C15_Witness ==
    /\ cover.pc = "saved"
    /\ ~cover.fits
    /\ cover.attempts = MaxAttempts
    /\ cover.title_size < title_size_floor

\* C16: an empty text given to gen_cover or to gen_subtitles is refused: no
\* cover image is saved and no cue with an empty text is written for it.
C16_EmptyInputRejected ==
    /\ cover.pc # "idle" /\ strip(cover.text) = <<>> => ~cover.drawn.saved
    /\ producer = "gen_subtitles" /\ strip(text) = <<>> =>
           \A i \in 1..Len(srt) : srt[i].text # <<>>

\* C18: when the loop ends at the floor without the text fitting, the drawing
\* uses the fonts, the wrapped lines, the spacing and the title-body gap that
\* total_h, from which the first y is derived, was computed with.
C18_DrawnAsMeasured ==
    cover.pc = "saved" /\ ~cover.fits =>
        /\ cover.drawn.title_font = cover.title_font
        /\ cover.drawn.body_font = cover.body_font
        /\ cover.drawn.wrapped_title = cover.wrapped_title
        /\ cover.drawn.wrapped_body = cover.wrapped_body
        /\ cover.drawn.spacing = cover.measured_spacing
        /\ cover.drawn.title_body_gap = cover.measured_gap
        /\ cover.drawn.y_end - cover.drawn.y_start = cover.total_h + cover.drawn.spacing

Started(r) == runs[r].pc # "idle"

\* C13: any two invocations (same title and same clock second included) have
\* distinct post directories, and no file one of them wrote is overwritten
\* by the other.
C13_OwnPostDir ==
    /\ \A r1, r2 \in DOMAIN runs :
           r1 # r2 /\ Started(r1) /\ Started(r2) => runs[r1].post_dir # runs[r2].post_dir
    /\ \A f \in dirs : f.over = {}

\* C20: the subtitles a run's encoder reads are the ones this run copied to
\* the temporary path, and, the directories being distinct, its own cues: no
\* other run's cues come in between the copy and the encoder call.
C20_EncoderReadsOwnCues ==
    \A r \in DOMAIN runs :
        runs[r].encoded /\ runs[r].filter =>
            /\ runs[r].burned = runs[r].copied
            /\ (\A o \in DOMAIN runs : o # r => runs[o].post_dir # runs[r].post_dir)
                  => runs[r].burned = runs[r].cues

====
